---- MODULE Spec2Model ----
(***************************************************************************)
(* Model of padchat-sdk's command/response correlation layer and inbound   *)
(* router (src/index.js, first revision in the file: lines 1-1764) with    *)
(* the key-casing helpers it requires (src/unnamed/part_001 and            *)
(* src/helper.js).                                                         *)
(*                                                                         *)
(* JavaScript runs one callback at a time, so every action below is one    *)
(* callback (or one synchronous API call) run to completion.  Promise      *)
(* reactions are microtasks: they are queued in `jobs` and drained by the  *)
(* Microtasks action before any timer or socket callback runs.             *)
(***************************************************************************)
EXTENDS Integers, Sequences, FiniteSets, TLC

\* ------------------------------------------------------------------ bounds
\* number of asyncSend/sendCmd calls made by the application
MaxCmds == 2
\* number of distinct correlation ids an asyncSend caller supplies itself
MaxCallerId == 1
\* number of items in the push batches the server sends
MaxBatch == 3

\* ------------------------------------------------------- program constants
\* asyncSend(data, timeout = 30000)
DefaultTimeout == 30000
\* setTimeout(..., timeout * 1000)
TimeoutFactor == 1000
\* noise codes of push items
Noise2048 == 2048
Noise32768 == 32768
\* primary type whose effective type is the sub type
SubTypeMarker == 5

\* ------------------------------------------------------------ JSON values
\* A JSON/JavaScript value is a record [t, v]: t is the tag, v the content.
\* An object is the sequence of its <<key, value>> entries in insertion
\* order; a key is the sequence of its characters.
Undef == [t |-> "undef", v |-> 0]
Null == [t |-> "null", v |-> 0]
Num(n) == [t |-> "num", v |-> n]
Str(s) == [t |-> "str", v |-> s]
Bool(b) == [t |-> "bool", v |-> b]
Obj(entries) == [t |-> "obj", v |-> entries]
Arr(items) == [t |-> "arr", v |-> items]

\* JavaScript truthiness: if (x), !x
Truthy(x) ==
  CASE x.t = "undef" -> FALSE
    [] x.t = "null" -> FALSE
    [] x.t = "num" -> x.v # 0
    [] x.t = "str" -> x.v # ""
    [] x.t = "bool" -> x.v
    [] OTHER -> TRUE

\* x instanceof Object (arrays are objects)
IsObject(x) == x.t \in {"obj", "arr"}

\* obj.hasOwnProperty(key)
HasKey(entries, key) == \E i \in 1..Len(entries) : entries[i][1] = key

\* obj[key]; a missing property, and any property of a primitive, is undefined
Get(x, key) ==
  IF x.t = "obj" /\ HasKey(x.v, key)
    THEN LET i == CHOOSE j \in 1..Len(x.v) : x.v[j][1] = key IN x.v[i][2]
    ELSE Undef

\* obj[key] = val: an existing property keeps its place, a new one is appended
SetKey(entries, key, val) ==
  IF HasKey(entries, key)
    THEN [i \in 1..Len(entries) |->
            IF entries[i][1] = key THEN <<key, val>> ELSE entries[i]]
    ELSE Append(entries, <<key, val>>)

\* delete obj[key]
DeleteKey(entries, key) == SelectSeq(entries, LAMBDA e : e[1] # key)

\* ------------------------------------------------------------- key casing
LowerLetters ==
  {"a","b","c","d","e","f","g","h","i","j","k","l","m",
   "n","o","p","q","r","s","t","u","v","w","x","y","z"}
UpperLetters ==
  {"A","B","C","D","E","F","G","H","I","J","K","L","M",
   "N","O","P","Q","R","S","T","U","V","W","X","Y","Z"}
Digits == {"0","1","2","3","4","5","6","7","8","9"}

\* the regular expression class \w
IsWordChar(c) == c \in LowerLetters \cup UpperLetters \cup Digits \cup {"_"}

\* String.prototype.toUpperCase on one character
ToUpperCase(c) ==
  CASE c = "a" -> "A" [] c = "b" -> "B" [] c = "c" -> "C" [] c = "d" -> "D"
    [] c = "e" -> "E" [] c = "f" -> "F" [] c = "g" -> "G" [] c = "h" -> "H"
    [] c = "i" -> "I" [] c = "j" -> "J" [] c = "k" -> "K" [] c = "l" -> "L"
    [] c = "m" -> "M" [] c = "n" -> "N" [] c = "o" -> "O" [] c = "p" -> "P"
    [] c = "q" -> "Q" [] c = "r" -> "R" [] c = "s" -> "S" [] c = "t" -> "T"
    [] c = "u" -> "U" [] c = "v" -> "V" [] c = "w" -> "W" [] c = "x" -> "X"
    [] c = "y" -> "Y" [] c = "z" -> "Z" [] OTHER -> c

\* key.replace(/_(\w)/g, (match, val) => val.toUpperCase()), scanning from i
RECURSIVE ReplaceUnderscore(_, _)
ReplaceUnderscore(key, i) ==
  IF i > Len(key) THEN <<>>
  ELSE IF key[i] = "_" /\ i < Len(key) /\ IsWordChar(key[i + 1])
    THEN <<ToUpperCase(key[i + 1])>> \o ReplaceUnderscore(key, i + 2)
    ELSE <<key[i]>> \o ReplaceUnderscore(key, i + 1)

\* newKey.replace(/^(\w)/, (match, val) => val.toUpperCase())
CapitalizeFirst(key) ==
  IF Len(key) > 0 /\ IsWordChar(key[1])
    THEN <<ToUpperCase(key[1])>> \o SubSeq(key, 2, Len(key))
    ELSE key

\* the new name toCamelCase gives a key
CamelKey(key, big) ==
  LET newKey == ReplaceUnderscore(key, 1)
  IN IF big THEN CapitalizeFirst(newKey) ELSE newKey

\* mutant: only the keys of the mapping itself are renamed, into a new
\* mapping; the values are not descended into
toCamelCaseShallow(obj, big) ==
  IF obj.t # "obj" THEN obj
  ELSE Obj([i \in 1..Len(obj.v) |-> <<CamelKey(obj.v[i][1], big), obj.v[i][2]>>])

\* toCamelCase(obj, big): arrays are mapped to a new array (the flag is not
\* passed on); a mapping is rewritten in place, key by key, over the keys it
\* had when the loop started (CamelLoop); anything else is returned as it is.
RECURSIVE toCamelCase(_, _)
RECURSIVE CamelLoop(_, _, _)
CamelLoop(entries, keys, big) ==
  IF keys = <<>> THEN entries
  ELSE
    LET key == Head(keys) IN
    IF ~HasKey(entries, key) THEN CamelLoop(entries, Tail(keys), big)
    ELSE
      LET newKey == CamelKey(key, big)
          old == Get(Obj(entries), key)
          val == IF IsObject(old) THEN toCamelCase(old, FALSE) ELSE old
          e1 == SetKey(entries, key, val)
          e2 == IF newKey # key
                  THEN DeleteKey(SetKey(e1, newKey, val), key)
                  ELSE e1
      IN CamelLoop(e2, Tail(keys), big)

toCamelCase(obj, big) ==
  IF obj.t = "arr"
    THEN Arr([i \in 1..Len(obj.v) |-> toCamelCase(obj.v[i], FALSE)])
  ELSE IF obj.t # "obj" THEN obj
  ELSE Obj(CamelLoop(obj.v, [i \in 1..Len(obj.v) |-> obj.v[i][1]], big))

\* What the structure the caller passed holds once toCamelCase(obj, big) has
\* returned.  A mapping is rewritten in place and is itself the result; an
\* array keeps its elements (map builds a new array for the result), but each
\* element that is a mapping was rewritten in place.
RECURSIVE AfterCall(_, _)
AfterCall(obj, big) ==
  IF obj.t = "arr"
    THEN Arr([i \in 1..Len(obj.v) |-> AfterCall(obj.v[i], FALSE)])
    ELSE toCamelCase(obj, big)

\* keys the helper is given: one underscore, two in a row, a trailing one, one
\* before a digit, a leading one, and keys without any
K_a_b == <<"a","_","b">>
K_a__b == <<"a","_","_","b">>
K_a_ == <<"a","_">>
K_a_1 == <<"a","_","1">>
K__a == <<"_","a">>
K_aB == <<"a","B">>
K_ab == <<"a","b">>
CasingKeys == {K_a_b, K_a__b, K_a_, K_a_1, K__a, K_aB, K_ab}

\* the structures toCamelCase is called with: scalars, mappings of one and of
\* two entries, a mapping inside a mapping, mappings inside sequences, a
\* sequence inside a mapping, and the empty mapping and sequence
Scalars == {Undef, Null, Num(1), Str("a_b"), Bool(TRUE)}
Mapping1(k, val) == Obj(<< <<k, val>> >>)
Structures ==
  Scalars \cup {Obj(<<>>), Arr(<<>>)}
  \cup {Mapping1(k, Num(1)) : k \in CasingKeys}
  \cup {Obj(<< <<k[1], Num(1)>>, <<k[2], Num(2)>> >>) :
          k \in {kk \in CasingKeys \X CasingKeys : kk[1] # kk[2]}}
  \cup {Mapping1(k[1], Mapping1(k[2], Num(1))) : k \in CasingKeys \X CasingKeys}
  \cup {Arr(<<Mapping1(k, Num(1)), Num(2), Arr(<<Mapping1(k, Str("x"))>>)>>) :
          k \in CasingKeys}
  \cup {Mapping1(k[1], Arr(<<Mapping1(k[2], Num(1)), Num(2)>>)) :
          k \in CasingKeys \X CasingKeys}

\* ------------------------------------------------------- correlation ids
\* data.cmdId: absent, the empty string, supplied by the asyncSend caller, or
\* generated by UUID.v1() (the n-th UUID of the process; UUIDs never repeat)
NoId == [src |-> "none", n |-> 0]
EmptyId == [src |-> "empty", n |-> 0]
CallerId(k) == [src |-> "caller", n |-> k]
Uuid(k) == [src |-> "uuid", n |-> k]
CallerIds == {CallerId(k) : k \in 1..MaxCallerId}
Uuids == {Uuid(k) : k \in 1..MaxCmds}
AllIds == CallerIds \cup Uuids

\* if (!data.cmdId), if (data.cmdId): absent and '' are falsy
TruthyId(id) == id.src \notin {"none", "empty"}

\* mutant: the event name leaves out the cmdId
RecvEventNameShared(cmdId) == <<"RET#", NoId>>

\* cmdId = 'RET#' + cmdId: the event a waiter listens on
RecvEventName(cmdId) == <<"RET#", cmdId>>

EventNames == {RecvEventName(id) : id \in AllIds}

\* ----------------------------------------------------------------- errors
\* new Error(...): kind names the message text, detail what is appended to it
Err(kind, detail) == [t |-> "error", v |-> <<kind, detail>>]
DecodeError == Err("DecodeError", Undef)
TimeoutError(timeout) == Err("Timeout", Num(timeout * TimeoutFactor))
UnmonitoredReply(cmdId) == Err("UnmonitoredReply", Str(cmdId))
PushDataError == Err("PushDataError", Undef)
ServerWarn(text) == Err("ServerWarn", text)

\* -------------------------------------------------------- inbound frames
\* The decoded envelope: the fields onWsMsg reads.  type and event are ""
\* when absent; data, msg, error and success are JSON values.
Envelope(type, cmdId, event, data) ==
  [type |-> type, cmdId |-> cmdId, event |-> event, data |-> data,
   msg |-> Str("hint"), error |-> Undef, success |-> Bool(TRUE)]

NoEnvelope == Envelope("", NoId, "", Undef)

\* what the socket hands to the 'message' callback: a string that parses to a
\* mapping ("json"), a string that parses to null ("jsonnull"), a string that
\* does not parse ("badjson"), or something that is no string ("binary")
JsonFrame(env) == [kind |-> "json", env |-> env]
BadJsonFrame == [kind |-> "badjson", env |-> NoEnvelope]
BinaryFrame == [kind |-> "binary", env |-> NoEnvelope]
JsonNullFrame == [kind |-> "jsonnull", env |-> NoEnvelope]

K_success == <<"s","u","c","c","e","s","s">>
K_data == <<"d","a","t","a">>
K_msg_id == <<"m","s","g","_","i","d">>
K_msgId == <<"m","s","g","I","d">>
K_list == <<"l","i","s","t">>
K_msg_type == <<"m","s","g","_","t","y","p","e">>
K_sub_type == <<"s","u","b","_","t","y","p","e">>
K_msgType == <<"m","s","g","T","y","p","e">>
K_subType == <<"s","u","b","T","y","p","e">>
K_mType == <<"m","T","y","p","e">>

\* the result structure the server returns for the command with this cmdId;
\* it names the command it answers, so a reply delivered to the wrong caller
\* can be told apart
ResultFor(id) ==
  Obj(<< <<K_success, Bool(TRUE)>>,
         <<K_data, Obj(<< <<K_msg_id, Str(id)>> >>)>> >>)

\* the same structure as the caller sees it, keys in camel case
CamelResultFor(id) ==
  Obj(<< <<K_success, Bool(TRUE)>>,
         <<K_data, Obj(<< <<K_msgId, Str(id)>> >>)>> >>)

PushItem(type, sub) ==
  Obj(<< <<K_msg_type, Num(type)>>, <<K_sub_type, Num(sub)>> >>)

PushFrame(data) == JsonFrame(Envelope("userEvent", NoId, "push", data))

\* replies that carry a cmdId, one of them without a result
CmdRetFrames ==
  {JsonFrame(Envelope("cmdRet", id, "", ResultFor(id))) : id \in AllIds}
  \cup {JsonFrame(Envelope("cmdRet", CallerId(1), "", Undef))}

\* replies whose cmdId is absent or empty
AnonymousRetFrames ==
  {JsonFrame(Envelope("cmdRet", NoId, "", ResultFor(CallerId(1)))),
   JsonFrame(Envelope("cmdRet", EmptyId, "", ResultFor(CallerId(1))))}

UndecodableFrames == {BadJsonFrame, BinaryFrame}

PushFrames ==
  {PushFrame(Undef),
   PushFrame(Obj(<<>>)),
   PushFrame(Obj(<< <<K_list, Num(1)>> >>)),
   PushFrame(Obj(<< <<K_list, Arr(<<>>)>> >>)),
   PushFrame(Obj(<< <<K_list, Arr(<<PushItem(1, 0), Null, PushItem(1, 0)>>)>> >>)),
   PushFrame(Obj(<< <<K_list, Arr(<<Num(7), PushItem(1, 0)>>)>> >>)),
   PushFrame(Obj(<< <<K_list,
       Arr(<<Obj(<< <<K_sub_type, Num(7)>> >>), PushItem(1, 0)>>)>> >>)),
   PushFrame(Obj(<< <<K_list,
       Arr(<<PushItem(Noise2048, 0), PushItem(Noise32768, 0),
             PushItem(SubTypeMarker, 7)>>)>> >>))}

\* case labels 'qrcode' ... 'sns' of the userEvent switch
LifecycleEvents == {"qrcode", "scan", "login", "loaded", "logout", "over", "sns"}

\* userEvent frames of a lifecycle event: with a payload, without one, and one
\* that carries a cmdId
LifecycleFrames ==
  {JsonFrame(Envelope("userEvent", NoId, ev, ResultFor(CallerId(1)))) :
     ev \in LifecycleEvents}
  \cup {JsonFrame(Envelope("userEvent", NoId, "login", Undef)),
        JsonFrame(Envelope("userEvent", CallerId(1), "scan", ResultFor(CallerId(1))))}

\* frames that end in a default branch: a userEvent with an event name that is
\* no case label (or with none), and frames of another type or without a type
OtherFrames ==
  {JsonFrame(Envelope("userEvent", NoId, ev, ResultFor(CallerId(1)))) :
     ev \in {"unknown", ""}}
  \cup {JsonFrame(Envelope("sysEvent", NoId, "", Undef)),
        JsonFrame(Envelope("sysEvent", CallerId(1), "login", ResultFor(CallerId(1)))),
        JsonFrame(Envelope("", NoId, "", Undef))}

EventFrames ==
  {JsonFrame(Envelope("userEvent", NoId, "warn", ResultFor(CallerId(1))))}
  \cup LifecycleFrames \cup OtherFrames

\* the primary types of the items the server pushes
ItemTypes == {1, SubTypeMarker, Noise2048, Noise32768}

\* push batches of one to MaxBatch items, each with a primary type and a sub type
BatchFrames ==
  {PushFrame(Obj(<< <<K_list,
       Arr([i \in 1..Len(types) |-> PushItem(types[i], 7)])>> >>)) :
     types \in UNION {[1..k -> ItemTypes] : k \in 1..MaxBatch}}

\* an item whose type fields are spelled msgType and subType on the wire
PushItemCamel(type, sub) ==
  Obj(<< <<K_msgType, Num(type)>>, <<K_subType, Num(sub)>> >>)

\* a batch of one item of each primary type, in either spelling, and a
\* batch that mixes the spellings, with the same batch in one spelling
SpellingPairs ==
  {[under |-> PushFrame(Obj(<< <<K_list, Arr(<<PushItem(t, 7)>>)>> >>)),
    camel |-> PushFrame(Obj(<< <<K_list, Arr(<<PushItemCamel(t, 7)>>)>> >>))] :
     t \in ItemTypes}
  \cup {[under |-> PushFrame(Obj(<< <<K_list,
            Arr(<<PushItem(SubTypeMarker, 7), PushItem(1, 7)>>)>> >>)),
         camel |-> PushFrame(Obj(<< <<K_list,
            Arr(<<PushItemCamel(SubTypeMarker, 7), PushItem(1, 7)>>)>> >>))]}

\* the batches with items in the camel-case spelling
SpellingFrames == {p.camel : p \in SpellingPairs}

\* userEvent frames of the 'warn' event, with the error text and the success
\* flag the server sets
WarnFrame(error, success) ==
  JsonFrame([Envelope("userEvent", NoId, "warn", Undef)
               EXCEPT !.error = error, !.success = success])
WarnFrames ==
  {WarnFrame(Str("e1"), Bool(FALSE)), WarnFrame(Str("e1"), Bool(TRUE)),
   WarnFrame(Str("e2"), Bool(FALSE))}

\* the frames that concern the dispatcher: replies and undecodable frames
ReplyFrames == CmdRetFrames \cup UndecodableFrames

\* every kind of frame the router classifies
Frames ==
  ReplyFrames \cup AnonymousRetFrames \cup {JsonNullFrame}
  \cup PushFrames \cup EventFrames

\* ------------------------------------------------------------------ state
VARIABLES
  ws,             \* state of this.ws: "connecting", "open" or "closed"
  userOn,         \* channels the consumer has registered a listener on
  calls,          \* the asyncSend calls made so far, in order
  nextUuid,       \* how many UUIDs were generated, plus one
  listeners,      \* event name -> the waiters whose once-listener is registered
  timeOutHandle,  \* per call: the deadline timer of getCmdRecv
  recv,           \* per call: the promise getCmdRecv returns
  completions,    \* per call: how often res or rej of that promise was called
  sent,           \* per call: the promise _send returns
  future,         \* per call: the promise asyncSend returns
  cmdFuture,      \* per call: the promise sendCmd returns ("none" for asyncSend)
  jobs,           \* promise reactions queued as microtasks (waiters, in order)
  unhandled,      \* rejections no handler was attached to: <<call, promise>>
  wire,           \* frames handed to an open socket, in order
  emitted,        \* the events the running callback emitted, in order
  threw,          \* whether the running callback ended by throwing
  normInput,      \* last toCamelCase call: the structure passed, as it was
  normBig,        \* last toCamelCase call: the flag `big`
  normHeld,       \* last toCamelCase call: what the passed structure holds now
  normOutput,     \* last toCamelCase call: the value returned
  loginRet        \* last login call: the promise login returned

vars == <<ws, userOn, calls, nextUuid, listeners, timeOutHandle, recv,
          completions, sent, future, cmdFuture, jobs, unhandled, wire,
          emitted, threw, normInput, normBig, normHeld, normOutput,
          loginRet>>

\* the variables of the key-casing helper's caller
normVars == <<normInput, normBig, normHeld, normOutput>>

Waiters == 1..Len(calls)

Pending == [state |-> "pending", value |-> Undef]
Resolved(x) == [state |-> "resolved", value |-> x]
Rejected(e) == [state |-> "rejected", value |-> e]
NoPromise == [state |-> "none", value |-> Undef]

\* A promise settles once: res and rej of a settled promise do nothing.
Settle(p, q) == IF p.state = "pending" THEN q ELSE p

\* this.emit(name, p1, p2) as an entry of `emitted`
Event(name, p1, p2) == [ev |-> name, p1 |-> p1, p2 |-> p2]
Env(data) == [t |-> "env", v |-> data]

\* emit('error', e) throws e when no listener is registered on 'error'
EmitThrows(on, name) == name = "error" /\ "error" \notin on

\* the part of the state the dispatcher and the router share
DState ==
  [listeners |-> listeners, timeOutHandle |-> timeOutHandle, recv |-> recv,
   completions |-> completions, jobs |-> jobs, unhandled |-> unhandled]

SetDState(d) ==
  /\ listeners' = d.listeners
  /\ timeOutHandle' = d.timeOutHandle
  /\ recv' = d.recv
  /\ completions' = d.completions
  /\ jobs' = d.jobs
  /\ unhandled' = d.unhandled

\* no callback is running: the last one returned to the event loop
Idle == emitted = <<>> /\ ~threw

\* ------------------------------------------------------------- dispatcher
\* mutant: the once-listener forgets clearTimeout
onceListenerNoClear(d, w, data) ==
  [d EXCEPT
     !.completions[w] = @ + 1,
     !.recv[w] = Settle(@, Resolved(Env(data))),
     !.jobs = IF d.recv[w].state = "pending" THEN Append(@, w) ELSE @]

\* The once-listener getCmdRecv registers: clearTimeout(timeOutHandle);
\* res(data).  Resolving the promise queues asyncSend's then-callback.
onceListener(d, w, data) ==
  [d EXCEPT
     !.timeOutHandle[w].state = "cleared",
     !.completions[w] = @ + 1,
     !.recv[w] = Settle(@, Resolved(Env(data))),
     !.jobs = IF d.recv[w].state = "pending" THEN Append(@, w) ELSE @]

\* this.removeAllListeners(cmdId): every listener of that event is dropped
removeAllListeners(ls, name) == [ls EXCEPT ![name] = <<>>]

\* mutant: the timer callback rejects and leaves the listener registered
timeOutHandlerKeepListener(d, w, cmdId, timeout) ==
  [d EXCEPT
     !.timeOutHandle[w].state = "fired",
     !.completions[w] = @ + 1,
     !.recv[w] = Settle(@, Rejected(TimeoutError(timeout))),
     !.unhandled = IF d.recv[w].state = "pending"
                     THEN @ \cup {<<w, "getCmdRecv">>} ELSE @]

\* The timer callback of getCmdRecv: this.removeAllListeners(cmdId);
\* rej(new Error(...)).  asyncSend attached only a then-callback to the
\* promise, so the rejection reaches no handler.
timeOutHandler(d, w, cmdId, timeout) ==
  [d EXCEPT
     !.listeners = removeAllListeners(@, RecvEventName(cmdId)),
     !.timeOutHandle[w].state = "fired",
     !.completions[w] = @ + 1,
     !.recv[w] = Settle(@, Rejected(TimeoutError(timeout))),
     !.unhandled = IF d.recv[w].state = "pending"
                     THEN @ \cup {<<w, "getCmdRecv">>} ELSE @]

\* mutant: getCmdRecv arms the timer and leaves the listener for later
getCmdRecvNoListener(d, w, cmdId, timeout) ==
  [d EXCEPT
     !.timeOutHandle = Append(@, [state |-> "armed",
                                  delay |-> timeout * TimeoutFactor]),
     !.recv = Append(@, Pending),
     !.completions = Append(@, 0)]

\* mutant: getCmdRecv registers the listener and arms no timer
getCmdRecvNoTimer(d, w, cmdId, timeout) ==
  [d EXCEPT
     !.timeOutHandle = Append(@, [state |-> "cleared",
                                  delay |-> timeout * TimeoutFactor]),
     !.listeners[RecvEventName(cmdId)] = Append(@, w),
     !.recv = Append(@, Pending),
     !.completions = Append(@, 0)]

\* getCmdRecv(cmdId, timeout) up to its return: arm the timer with
\* timeout * 1000, register the once-listener on 'RET#' + cmdId
getCmdRecv(d, w, cmdId, timeout) ==
  [d EXCEPT
     !.timeOutHandle = Append(@, [state |-> "armed",
                                  delay |-> timeout * TimeoutFactor]),
     !.listeners[RecvEventName(cmdId)] = Append(@, w),
     !.recv = Append(@, Pending),
     !.completions = Append(@, 0)]

\* ------------------------------------------------------- outgoing payload
\* String.prototype.toLowerCase on one character
ToLowerCase(c) ==
  CASE c = "A" -> "a" [] c = "B" -> "b" [] c = "C" -> "c" [] c = "D" -> "d"
    [] c = "E" -> "e" [] c = "F" -> "f" [] c = "G" -> "g" [] c = "H" -> "h"
    [] c = "I" -> "i" [] c = "J" -> "j" [] c = "K" -> "k" [] c = "L" -> "l"
    [] c = "M" -> "m" [] c = "N" -> "n" [] c = "O" -> "o" [] c = "P" -> "p"
    [] c = "Q" -> "q" [] c = "R" -> "r" [] c = "S" -> "s" [] c = "T" -> "t"
    [] c = "U" -> "u" [] c = "V" -> "v" [] c = "W" -> "w" [] c = "X" -> "x"
    [] c = "Y" -> "y" [] c = "Z" -> "z" [] OTHER -> c

\* key.replace(/([A-Z])/g, (match, val, offset) => (offset ? '_' : '') + val)
\* .toLowerCase(), scanning from i: offset is 0 for the first character only
RECURSIVE UnderLineKey(_, _)
UnderLineKey(key, i) ==
  IF i > Len(key) THEN <<>>
  ELSE IF key[i] \in UpperLetters /\ i > 1
    THEN <<"_", ToLowerCase(key[i])>> \o UnderLineKey(key, i + 1)
    ELSE <<ToLowerCase(key[i])>> \o UnderLineKey(key, i + 1)

\* the keys for...in gives for an array: its indices, as strings
IndexKeys == <<"0","1","2","3","4","5","6","7","8","9">>

\* the own enumerable properties of obj, in for...in order
OwnEntries(obj) ==
  IF obj.t = "arr"
    THEN [i \in 1..Len(obj.v) |-> << <<IndexKeys[i]>>, obj.v[i] >>]
    ELSE obj.v

\* the loop of toUnderLine: newObj[newKey] = obj[key], entry by entry
RECURSIVE UnderLineLoop(_, _)
UnderLineLoop(entries, newObj) ==
  IF entries = <<>> THEN newObj
  ELSE UnderLineLoop(Tail(entries),
                     SetKey(newObj, UnderLineKey(Head(entries)[1], 1),
                            Head(entries)[2]))

\* mutant: toUnderLine copies the mapping and keeps its keys
toUnderLineKeepKeys(obj) == IF ~IsObject(obj) THEN obj ELSE Obj(OwnEntries(obj))

\* toUnderLine(obj): anything that is not an Object is returned as it is;
\* otherwise a new mapping with the renamed keys (values are not descended)
toUnderLine(obj) ==
  IF ~IsObject(obj) THEN obj ELSE Obj(UnderLineLoop(OwnEntries(obj), <<>>))

\* clearRawMsg(obj): delete obj.data when typeof obj === 'object'.  sendCmd
\* calls it with truthy values only, so null never reaches the delete.
clearRawMsg(obj) == IF obj.t = "obj" THEN Obj(DeleteKey(obj.v, K_data)) ELSE obj

K_rawMsgData == <<"r","a","w","M","s","g","D","a","t","a">>

\* sendCmd, before it calls asyncSend: the payload with its rawMsgData, when
\* truthy, cleared and renamed
sendCmdData(data) ==
  IF Truthy(Get(data, K_rawMsgData))
    THEN Obj(SetKey(data.v, K_rawMsgData,
                    toUnderLine(clearRawMsg(Get(data, K_rawMsgData)))))
    ELSE data

K_content == <<"c","o","n","t","e","n","t">>
K_fromUser == <<"f","r","o","m","U","s","e","r">>
K_from_user == <<"f","r","o","m","_","u","s","e","r">>
K_key == <<"k","e","y">>

\* a push item as the 'push' event delivered it (keys in camel case), with
\* and without the echoed 'data' field
RawMsg ==
  Obj(<< <<K_msgId, Str("m1")>>, <<K_data, Str("bulk")>>,
         <<K_fromUser, Str("u1")>>, <<K_mType, Num(3)>> >>)
RawMsgNoData == Obj(<< <<K_fromUser, Str("u1")>>, <<K_msgId, Str("m1")>> >>)

\* the payloads the wrappers give sendCmd: without rawMsgData (sendMsg), with
\* it alone (getMsgImage), with it and another field (openRedPacket, the key
\* given or left undefined), with a rawMsgData that is null, that has
\* nothing but 'data', and whose keys are in underscore form already
Payloads ==
  {Obj(<<>>),
   Obj(<< <<K_content, Str("hi")>>, <<K_fromUser, Str("u2")>> >>),
   Obj(<< <<K_rawMsgData, RawMsg>> >>),
   Obj(<< <<K_rawMsgData, RawMsgNoData>>, <<K_key, Str("k")>> >>),
   Obj(<< <<K_rawMsgData, RawMsg>>, <<K_key, Undef>> >>),
   Obj(<< <<K_rawMsgData, Null>>, <<K_data, Str("d")>> >>),
   Obj(<< <<K_rawMsgData, Obj(<< <<K_data, Str("bulk")>> >>)>> >>),
   Obj(<< <<K_rawMsgData, Obj(<< <<K_msg_id, Str("m1")>>,
                                 <<K_from_user, Str("u1")>> >>)>> >>)}

\* JSON.stringify(x), as the value the peer decodes from the text: a property
\* whose value is undefined or a function is left out, and either becomes null
\* in an array
RECURSIVE JsonStringify(_)
JsonStringify(x) ==
  IF x.t = "obj"
    THEN LET kept == SelectSeq(x.v, LAMBDA e : e[2].t \notin {"undef", "fn"})
         IN Obj([i \in 1..Len(kept) |->
                   <<kept[i][1], JsonStringify(kept[i][2])>>])
  ELSE IF x.t = "arr"
    THEN Arr([i \in 1..Len(x.v) |->
                IF x.v[i].t \in {"undef", "fn"} THEN Null
                ELSE JsonStringify(x.v[i])])
  ELSE x

\* asyncSend(data, timeout), called through `api` ("asyncSend" by the
\* application, "sendCmd" by sendCmd): choose the cmdId, register the waiter,
\* then hand the frame to the socket.  A socket that is not open fails the
\* send at once; _send's promise has no catch, so its rejection reaches no
\* handler.  rej of asyncSend's promise is never called.
AsyncSendCall(api, cmd, data, givenId, timeout) ==
  /\ Idle
  /\ Len(calls) < MaxCmds
  /\ LET w == Len(calls) + 1
         cmdId == IF ~TruthyId(givenId) THEN Uuid(nextUuid) ELSE givenId
         d == getCmdRecv(DState, w, cmdId, timeout)
     IN /\ calls' = Append(calls, [api |-> api, cmd |-> cmd, cmdId |-> cmdId,
                                   timeout |-> timeout])
        /\ nextUuid' = IF ~TruthyId(givenId) THEN nextUuid + 1 ELSE nextUuid
        /\ IF ws = "open"
             THEN /\ wire' = Append(wire, [type |-> "user", cmd |-> cmd,
                                           data |-> JsonStringify(data),
                                           cmdId |-> cmdId])
                  /\ sent' = Append(sent, Pending)
                  /\ SetDState(d)
             ELSE /\ wire' = wire
                  /\ sent' = Append(sent, Rejected(Err("TransportFailure", Undef)))
                  /\ SetDState([d EXCEPT !.unhandled = @ \cup {<<w, "_send">>}])
        /\ future' = Append(future, Pending)
        /\ cmdFuture' = Append(cmdFuture,
                               IF api = "sendCmd" THEN Pending ELSE NoPromise)
  /\ emitted' = <<>>
  /\ threw' = FALSE
  /\ UNCHANGED <<ws, userOn>>
  /\ UNCHANGED normVars

\* the timeouts an asyncSend caller passes
Timeouts == {DefaultTimeout}

\* the application calls asyncSend itself, with its own cmdId and a frame
\* that has no data property
AsyncSend(givenId, timeout) ==
  /\ AsyncSendCall("asyncSend", "echo", Undef, givenId, timeout)
  /\ UNCHANGED loginRet

\* sendCmd(cmd, data): asyncSend({type: 'user', cmd, data}), default timeout
SendCmd(cmd, data) ==
  /\ AsyncSendCall("sendCmd", cmd, sendCmdData(data), NoId, DefaultTimeout)
  /\ UNCHANGED loginRet

\* exports.loginType: the names of its own properties
LoginTypeNames == {"token", "request", "qrcode", "phone", "user"}

\* names every object inherits from Object.prototype
InheritedNames == {"constructor", "toString", "hasOwnProperty", "valueOf"}

\* a function value
Fn == [t |-> "fn", v |-> 0]

\* loginType[type]: an own property gives its string, a name inherited from
\* Object.prototype gives a function, any other name undefined
LoginTypeOf(type) ==
  IF type \in LoginTypeNames THEN Str(type)
  ELSE IF type \in InheritedNames THEN Fn
  ELSE Undef

K_loginType == <<"l","o","g","i","n","T","y","p","e">>
K_token == <<"t","o","k","e","n">>
K_wxData == <<"w","x","D","a","t","a">>
K_phone == <<"p","h","o","n","e">>
K_username == <<"u","s","e","r","n","a","m","e">>
K_password == <<"p","a","s","s","w","o","r","d">>

\* the checks of login before it sends: the error it throws, or Undef
LoginError(type, data) ==
  IF ~Truthy(LoginTypeOf(type)) THEN Err("LoginTypeError", Undef)
  ELSE IF type \in {"token", "request"}
          /\ (~Truthy(Get(data, K_token)) \/ ~Truthy(Get(data, K_wxData)))
    THEN Err("LoginDataError", Undef)
  ELSE IF type = "phone" /\ ~Truthy(Get(data, K_phone))
    THEN Err("LoginDataError", Undef)
  ELSE IF type = "user"
          /\ (~Truthy(Get(data, K_username)) \/ ~Truthy(Get(data, K_password)))
    THEN Err("LoginDataError", Undef)
  ELSE Undef

\* login(type, data): an async function, so what it throws rejects the
\* promise it returned; otherwise data.loginType = loginType[type] and the
\* promise awaits sendCmd('login', data)
Login(type, data) ==
  IF LoginError(type, data) # Undef
    THEN /\ Idle
         /\ loginRet' = Rejected(LoginError(type, data))
         /\ emitted' = <<>>
         /\ threw' = FALSE
         /\ UNCHANGED <<ws, userOn, calls, nextUuid, listeners, timeOutHandle,
                        recv, completions, sent, future, cmdFuture, jobs,
                        unhandled, wire>>
         /\ UNCHANGED normVars
    ELSE /\ AsyncSendCall("sendCmd", "login",
                          sendCmdData(Obj(SetKey(data.v, K_loginType,
                                                 LoginTypeOf(type)))),
                          NoId, DefaultTimeout)
         /\ loginRet' = [state |-> "awaits", value |-> Num(Len(calls) + 1)]

\* mutant: the deadline hands the frame of call w to the socket once more
TimerFireResend(w) ==
  /\ Idle
  /\ w \in Waiters
  /\ timeOutHandle[w].state = "armed"
  /\ jobs = <<>>
  /\ SetDState(timeOutHandler(DState, w, calls[w].cmdId, calls[w].timeout))
  /\ wire' = Append(wire, [type |-> "user", cmd |-> calls[w].cmd,
                           data |-> Undef, cmdId |-> calls[w].cmdId])
  /\ emitted' = <<>>
  /\ threw' = FALSE
  /\ UNCHANGED <<ws, userOn, calls, nextUuid, sent, future, cmdFuture>>
  /\ UNCHANGED <<normVars, loginRet>>

\* the deadline timer of call w fires (timers run with no microtask pending)
TimerFire(w) ==
  /\ Idle
  /\ w \in Waiters
  /\ timeOutHandle[w].state = "armed"
  /\ jobs = <<>>
  /\ SetDState(timeOutHandler(DState, w, calls[w].cmdId, calls[w].timeout))
  /\ emitted' = <<>>
  /\ threw' = FALSE
  /\ UNCHANGED <<ws, userOn, calls, nextUuid, sent, future, cmdFuture, wire>>
  /\ UNCHANGED <<normVars, loginRet>>

\* the callback ws.send was given runs: e is set (ok = FALSE) or not
SendCallback(w, ok) ==
  /\ Idle
  /\ w \in Waiters
  /\ sent[w].state = "pending"
  /\ jobs = <<>>
  /\ sent' = [sent EXCEPT ![w] =
                IF ok THEN Resolved(Bool(TRUE))
                      ELSE Rejected(Err("TransportFailure", Undef))]
  /\ unhandled' = IF ok THEN unhandled ELSE unhandled \cup {<<w, "_send">>}
  /\ emitted' = <<>>
  /\ threw' = FALSE
  /\ UNCHANGED <<ws, userOn, calls, nextUuid, listeners, timeOutHandle, recv,
                 completions, future, cmdFuture, jobs, wire>>
  /\ UNCHANGED <<normVars, loginRet>>

\* mutant: the then-callback passes on the whole frame
ReplyPayloadEnvelope(p) == p.value

\* what asyncSend's then-callback passes to res: data.data
ReplyPayload(p) == p.value.v.data

\* the consumer's 'cmdRet' listeners: one that returns, one that throws
DiagChannels == {"cmdRet", "cmdRet:throws"}

\* this.emit('cmdRet', cmd, ret) throws what a listener throws
CmdRetThrows(on) == "cmdRet:throws" \in on

\* mutant: the then-callback of sendCmd returns ret and emits nothing
sendCmdThenSilent(on, w) ==
  [emitted |-> <<>>, settle |-> Resolved(ReplyPayload(recv[w]))]

\* the then-callback of sendCmd for call w: this.emit('cmdRet', cmd, ret);
\* return ret.  What a listener throws is thrown by the callback, so the
\* promise sendCmd returned is rejected with it (catch(e => { throw e })).
sendCmdThen(on, w) ==
  [emitted |-> <<Event("cmdRet", Str(calls[w].cmd), ReplyPayload(recv[w]))>>,
   settle |-> IF CmdRetThrows(on)
                THEN Rejected(Err("ListenerError", Undef))
                ELSE Resolved(ReplyPayload(recv[w]))]

\* the events the then-callbacks of the sendCmd calls in js emit, in order
RECURSIVE CmdRetEvents(_, _)
CmdRetEvents(on, js) ==
  IF js = <<>> THEN <<>>
  ELSE sendCmdThen(on, Head(js)).emitted \o CmdRetEvents(on, Tail(js))

\* The microtask queue is drained.  For each waiter resolved by a reply:
\* asyncSend's then-callback calls res(data.data); for a sendCmd call the
\* then-callback of sendCmd emits 'cmdRet' (cmd, ret) and returns ret.
Microtasks ==
  /\ Idle
  /\ jobs # <<>>
  /\ LET done == {jobs[i] : i \in 1..Len(jobs)}
         cmdJobs == SelectSeq(jobs, LAMBDA w : calls[w].api = "sendCmd")
     IN /\ future' = [w \in DOMAIN future |->
                        IF w \in done
                          THEN Settle(future[w], Resolved(ReplyPayload(recv[w])))
                          ELSE future[w]]
        /\ cmdFuture' = [w \in DOMAIN cmdFuture |->
                        IF w \in done /\ calls[w].api = "sendCmd"
                          THEN Settle(cmdFuture[w], sendCmdThen(userOn, w).settle)
                          ELSE cmdFuture[w]]
        /\ emitted' = CmdRetEvents(userOn, cmdJobs)
  /\ jobs' = <<>>
  /\ threw' = FALSE
  /\ UNCHANGED <<ws, userOn, calls, nextUuid, listeners, timeOutHandle, recv,
                 completions, sent, unhandled, wire>>
  /\ UNCHANGED <<normVars, loginRet>>

\* ----------------------------------------------------------------- router
\* 'RET#' + data.cmdId: the event a cmdRet frame is emitted on
RetEventName(data) == RecvEventName(data.cmdId)

ListenersOf(ls, name) == IF name \in DOMAIN ls THEN ls[name] ELSE <<>>

\* emit calls the listeners registered on the event, in registration order
RECURSIVE CallListeners(_, _, _)
CallListeners(d, ws_, data) ==
  IF ws_ = <<>> THEN d
  ELSE CallListeners(onceListener(d, Head(ws_), data), Tail(ws_), data)

\* mutant: the listeners are removed and called in no step at all
emitRetNoCall(d, data) ==
  LET name == RetEventName(data)
      ls == ListenersOf(d.listeners, name)
  IN [d |-> IF ls = <<>> THEN d
            ELSE [d EXCEPT !.listeners = removeAllListeners(@, name)],
      hasOn |-> ls # <<>>]

\* this.emit('RET#' + data.cmdId, data): a once-listener is removed when it is
\* called; the result tells whether the event had listeners
emitRet(d, data) ==
  LET name == RetEventName(data)
      ls == ListenersOf(d.listeners, name)
      d1 == IF ls = <<>> THEN d
            ELSE [d EXCEPT !.listeners = removeAllListeners(@, name)]
  IN [d |-> CallListeners(d1, ls, data), hasOn |-> ls # <<>>]

\* mutant: a reply nobody waits for is dropped without the warning
onCmdRetSilent(d, data) ==
  IF data.type = "cmdRet" /\ TruthyId(data.cmdId)
    THEN [d |-> emitRet(d, data).d, threw |-> FALSE,
          emitted |-> <<Event("RET#", Str(data.cmdId), Env(data))>>]
    ELSE [d |-> d, threw |-> FALSE, emitted |-> <<>>]

\* mutant: a reply without cmdId is reported as an unclassified frame
onCmdRetAnonymousOther(d, data) ==
  IF data.type = "cmdRet" /\ TruthyId(data.cmdId)
    THEN LET r == emitRet(d, data)
             ret == Event("RET#", Str(data.cmdId), Env(data))
         IN IF ~r.hasOn
              THEN [d |-> r.d, threw |-> FALSE,
                    emitted |-> <<ret, Event("warn", UnmonitoredReply(data.cmdId), Undef)>>]
              ELSE [d |-> r.d, threw |-> FALSE, emitted |-> <<ret>>]
    ELSE [d |-> d, threw |-> FALSE, emitted |-> <<Event("other", Env(data), Undef)>>]

\* case 'cmdRet'
onCmdRet(d, data) ==
  IF data.type = "cmdRet" /\ TruthyId(data.cmdId)
    THEN LET r == emitRet(d, data)
             ret == Event("RET#", Str(data.cmdId), Env(data))
         IN IF ~r.hasOn
              THEN [d |-> r.d, threw |-> FALSE,
                    emitted |-> <<ret, Event("warn", UnmonitoredReply(data.cmdId), Undef)>>]
              ELSE [d |-> r.d, threw |-> FALSE, emitted |-> <<ret>>]
    ELSE [d |-> d, threw |-> FALSE, emitted |-> <<>>]

\* mutant: the effective type is always the primary type
EffectiveTypePrimary(item) == Get(item, K_msgType)

\* item.msgType === 5 ? item.subType : item.msgType
EffectiveType(item) ==
  IF Get(item, K_msgType) = Num(SubTypeMarker)
    THEN Get(item, K_subType) ELSE Get(item, K_msgType)

\* data.data.list.forEach(item => ...), from item i on: reading a property of
\* null or undefined throws a TypeError and ends the loop
RECURSIVE PushLoop(_, _)
PushLoop(items, i) ==
  IF i > Len(items) THEN [threw |-> FALSE, emitted |-> <<>>]
  ELSE
    LET item == items[i] IN
    IF item.t \in {"null", "undef"} THEN [threw |-> TRUE, emitted |-> <<>>]
    ELSE
      LET type == Get(item, K_msgType)
          rest == PushLoop(items, i + 1)
      IN IF type = Undef \/ type = Num(Noise2048) \/ type = Num(Noise32768)
           THEN rest
           ELSE LET out == Obj(SetKey(item.v, K_mType, EffectiveType(item)))
                IN [rest EXCEPT !.emitted = <<Event("push", out, Undef)>> \o @]

\* mutant: an empty list is not reported
onPushAcceptEmpty(on, data) ==
  LET list == Get(data.data, K_list) IN
  IF ~Truthy(data.data) \/ list.t # "arr"
    THEN [threw |-> EmitThrows(on, "error"),
          emitted |-> <<Event("error", PushDataError, Undef)>>]
    ELSE PushLoop(list.v, 1)

\* case 'push'
onPush(on, data) ==
  LET list == Get(data.data, K_list) IN
  IF ~Truthy(data.data) \/ list.t # "arr" \/ Len(list.v) <= 0
    THEN [threw |-> EmitThrows(on, "error"),
          emitted |-> <<Event("error", PushDataError, Undef)>>]
    ELSE PushLoop(list.v, 1)

\* mutant: a lifecycle event is emitted without the frame's msg
onUserEventNoMsg(on, data) ==
  CASE data.event = "warn" ->
         [threw |-> FALSE,
          emitted |-> <<Event("warn", ServerWarn(data.error), data.success)>>]
    [] data.event \in LifecycleEvents ->
         [threw |-> FALSE,
          emitted |-> <<Event(data.event,
                              IF Truthy(data.data) THEN data.data ELSE Obj(<<>>),
                              Undef)>>]
    [] data.event = "push" -> onPush(on, data)
    [] OTHER -> [threw |-> FALSE, emitted |-> <<Event("other", Env(data), Undef)>>]

\* mutant: the warning is built from the frame's msg
onUserEventWarnMsg(on, data) ==
  CASE data.event = "warn" ->
         [threw |-> FALSE,
          emitted |-> <<Event("warn", ServerWarn(data.msg), data.success)>>]
    [] data.event \in LifecycleEvents ->
         [threw |-> FALSE,
          emitted |-> <<Event(data.event,
                              IF Truthy(data.data) THEN data.data ELSE Obj(<<>>),
                              data.msg)>>]
    [] data.event = "push" -> onPush(on, data)
    [] OTHER -> [threw |-> FALSE, emitted |-> <<Event("other", Env(data), Undef)>>]

\* case 'userEvent'
onUserEvent(on, data) ==
  CASE data.event = "warn" ->
         [threw |-> FALSE,
          emitted |-> <<Event("warn", ServerWarn(data.error), data.success)>>]
    [] data.event \in LifecycleEvents ->
         [threw |-> FALSE,
          emitted |-> <<Event(data.event,
                              IF Truthy(data.data) THEN data.data ELSE Obj(<<>>),
                              data.msg)>>]
    [] data.event = "push" -> onPush(on, data)
    [] OTHER -> [threw |-> FALSE, emitted |-> <<Event("other", Env(data), Undef)>>]

\* mutant: a decode error also drops every waiter
onDecodeErrorReset(d, on) ==
  [d |-> [d EXCEPT !.listeners = [name \in DOMAIN @ |-> <<>>]],
   threw |-> EmitThrows(on, "error"),
   emitted |-> <<Event("error", DecodeError, Undef)>>]

\* the catch block of onWsMsg: emit('error', ...) and return
onDecodeError(d, on) ==
  [d |-> d, threw |-> EmitThrows(on, "error"),
   emitted |-> <<Event("error", DecodeError, Undef)>>]

\* onWsMsg(msg) on dispatcher state d with the consumer's listeners `on`:
\* the state it leaves, the events it emits and whether it throws
onWsMsg(d, on, msg) ==
  IF msg.kind \in {"badjson", "binary"} THEN onDecodeError(d, on)
  ELSE IF msg.kind = "jsonnull"
    THEN [d |-> d, threw |-> TRUE, emitted |-> <<>>]
  ELSE
    LET data == IF Truthy(msg.env.data)
                  THEN [msg.env EXCEPT !.data = toCamelCase(@, FALSE)]
                  ELSE msg.env
        raw == <<Event("msg", Env(data), Undef)>>
    IN CASE data.type = "cmdRet" ->
              LET r == onCmdRet(d, data)
              IN [r EXCEPT !.emitted = raw \o @]
         [] data.type = "userEvent" ->
              LET r == onUserEvent(on, data)
              IN [d |-> d, threw |-> r.threw, emitted |-> raw \o r.emitted]
         [] OTHER ->
              [d |-> d, threw |-> FALSE,
               emitted |-> raw \o <<Event("other", Env(data), Undef)>>]

\* the socket's 'message' callback runs for one frame
OnWsMsg(msg) ==
  /\ Idle
  /\ ws = "open"
  /\ LET r == onWsMsg(DState, userOn, msg)
     IN /\ SetDState(r.d)
        /\ emitted' = r.emitted
        /\ threw' = r.threw
  /\ UNCHANGED <<ws, userOn, calls, nextUuid, sent, future, cmdFuture, wire>>
  /\ UNCHANGED <<normVars, loginRet>>

\* ------------------------------------------------------------- connection
\* mutant: a closed connection is opened again
WsOpenAgain ==
  /\ Idle
  /\ ws \in {"connecting", "closed"}
  /\ ws' = "open"
  /\ emitted' = <<Event("open", Undef, Undef)>>
  /\ threw' = FALSE
  /\ UNCHANGED <<userOn, calls, nextUuid, listeners, timeOutHandle, recv,
                 completions, sent, future, cmdFuture, jobs, unhandled, wire>>
  /\ UNCHANGED <<normVars, loginRet>>

\* .on('open', () => { this.emit('open') }) of the one socket the constructor
\* creates; the 'close' and 'error' callbacks follow
WsOpen ==
  /\ Idle
  /\ ws = "connecting"
  /\ ws' = "open"
  /\ emitted' = <<Event("open", Undef, Undef)>>
  /\ threw' = FALSE
  /\ UNCHANGED <<userOn, calls, nextUuid, listeners, timeOutHandle, recv,
                 completions, sent, future, cmdFuture, jobs, unhandled, wire>>
  /\ UNCHANGED <<normVars, loginRet>>

WsClose ==
  /\ Idle
  /\ ws \in {"connecting", "open"}
  /\ ws' = "closed"
  /\ emitted' = <<Event("close", Undef, Undef)>>
  /\ threw' = FALSE
  /\ UNCHANGED <<userOn, calls, nextUuid, listeners, timeOutHandle, recv,
                 completions, sent, future, cmdFuture, jobs, unhandled, wire>>
  /\ UNCHANGED <<normVars, loginRet>>

\* mutant: a socket error is forwarded as an error and closes the connection
WsErrorCloses ==
  /\ Idle
  /\ ws \in {"connecting", "open"}
  /\ ws' = "closed"
  /\ emitted' = <<Event("error", Err("SocketError", Undef), Undef),
                  Event("close", Undef, Undef)>>
  /\ threw' = EmitThrows(userOn, "error")
  /\ UNCHANGED <<userOn, calls, nextUuid, listeners, timeOutHandle, recv,
                 completions, sent, future, cmdFuture, jobs, unhandled, wire>>
  /\ UNCHANGED <<normVars, loginRet>>

\* .on('error', e => { this.emit('error', e) })
WsError ==
  /\ Idle
  /\ ws \in {"connecting", "open"}
  /\ emitted' = <<Event("error", Err("SocketError", Undef), Undef)>>
  /\ threw' = EmitThrows(userOn, "error")
  /\ UNCHANGED <<ws, userOn, calls, nextUuid, listeners, timeOutHandle, recv,
                 completions, sent, future, cmdFuture, jobs, unhandled, wire>>
  /\ UNCHANGED <<normVars, loginRet>>

\* the channels a consumer's listeners matter on
Channels == {"error"}

\* the consumer registers a listener: wx.on(channel, ...)
On(channel) ==
  /\ Idle
  /\ channel \notin userOn
  /\ userOn' = userOn \cup {channel}
  /\ emitted' = <<>>
  /\ threw' = FALSE
  /\ UNCHANGED <<ws, calls, nextUuid, listeners, timeOutHandle, recv,
                 completions, sent, future, cmdFuture, jobs, unhandled, wire>>
  /\ UNCHANGED <<normVars, loginRet>>

\* ------------------------------------------------------------- key casing
\* the application calls Helper.toCamelCase(obj, big)
ToCamelCase(obj, big) ==
  /\ Idle
  /\ normInput' = obj
  /\ normBig' = big
  /\ normHeld' = AfterCall(obj, big)
  /\ normOutput' = toCamelCase(obj, big)
  /\ UNCHANGED <<ws, userOn, calls, nextUuid, listeners, timeOutHandle, recv,
                 completions, sent, future, cmdFuture, jobs, unhandled, wire,
                 emitted, threw, loginRet>>

\* the application passes the value a call returned to toCamelCase once more,
\* with the same flag
ToCamelCaseAgain ==
  /\ Idle
  /\ normInput' = normOutput
  /\ normBig' = normBig
  /\ normHeld' = AfterCall(normOutput, normBig)
  /\ normOutput' = toCamelCase(normOutput, normBig)
  /\ UNCHANGED <<ws, userOn, calls, nextUuid, listeners, timeOutHandle, recv,
                 completions, sent, future, cmdFuture, jobs, unhandled, wire,
                 emitted, threw, loginRet>>

\* the application passes what toCamelCase(obj) returned to toUnderLine, as
\* sendCmd does with a push item given back as rawMsgData
RoundTrip(obj) ==
  /\ Idle
  /\ normInput' = obj
  /\ normBig' = FALSE
  /\ normHeld' = AfterCall(obj, FALSE)
  /\ normOutput' = toUnderLine(toCamelCase(obj, FALSE))
  /\ UNCHANGED <<ws, userOn, calls, nextUuid, listeners, timeOutHandle, recv,
                 completions, sent, future, cmdFuture, jobs, unhandled, wire,
                 emitted, threw, loginRet>>

\* The running callback returns to the event loop; what it threw is gone
\* with it.
Return ==
  /\ ~Idle
  /\ emitted' = <<>>
  /\ threw' = FALSE
  /\ UNCHANGED <<ws, userOn, calls, nextUuid, listeners, timeOutHandle, recv,
                 completions, sent, future, cmdFuture, jobs, unhandled, wire>>
  /\ UNCHANGED <<normVars, loginRet>>

\* ---------------------------------------------------------- specification
\* new Padchat(url): the socket is connecting, nothing was sent or received
Init ==
  /\ ws = "connecting"
  /\ userOn = {}
  /\ calls = <<>>
  /\ nextUuid = 1
  /\ listeners = [name \in EventNames |-> <<>>]
  /\ timeOutHandle = <<>>
  /\ recv = <<>>
  /\ completions = <<>>
  /\ sent = <<>>
  /\ future = <<>>
  /\ cmdFuture = <<>>
  /\ jobs = <<>>
  /\ unhandled = {}
  /\ wire = <<>>
  /\ emitted = <<>>
  /\ threw = FALSE
  /\ normInput = Undef
  /\ normBig = FALSE
  /\ normHeld = Undef
  /\ normOutput = Undef
  /\ loginRet = NoPromise

Next ==
  \/ \E id \in CallerIds, t \in Timeouts : AsyncSend(id, t)
  \/ SendCmd("echo", Obj(<<>>))
  \/ \E w \in 1..MaxCmds : TimerFire(w)
  \/ \E w \in 1..MaxCmds, ok \in BOOLEAN : SendCallback(w, ok)
  \/ Microtasks
  \/ \E msg \in ReplyFrames : OnWsMsg(msg)
  \/ WsOpen
  \/ WsClose
  \/ WsError
  \/ \E ch \in Channels : On(ch)
  \/ Return

\* The dispatcher with the socket delivering replies and undecodable frames.
Spec == Init /\ [][Next]_vars

RouterNext ==
  \/ \E id \in CallerIds, t \in Timeouts : AsyncSend(id, t)
  \/ SendCmd("echo", Obj(<<>>))
  \/ \E w \in 1..MaxCmds : TimerFire(w)
  \/ Microtasks
  \/ \E msg \in Frames \cup BatchFrames \cup SpellingFrames \cup WarnFrames :
       OnWsMsg(msg)
  \/ WsOpen
  \/ \E ch \in Channels : On(ch)
  \/ Return

\* The router with the socket delivering every kind of frame.
RouterSpec == Init /\ [][RouterNext]_vars

\* The commands of the application, all made through sendCmd, with a consumer
\* that listens for 'cmdRet'.
CommandNext ==
  \/ SendCmd("echo", Obj(<<>>))
  \/ \E w \in 1..MaxCmds : TimerFire(w)
  \/ \E w \in 1..MaxCmds, ok \in BOOLEAN : SendCallback(w, ok)
  \/ Microtasks
  \/ \E msg \in CmdRetFrames : OnWsMsg(msg)
  \/ WsOpen
  \/ WsClose
  \/ \E ch \in DiagChannels : On(ch)
  \/ Return

CommandSpec == Init /\ [][CommandNext]_vars

\* The application sends commands with every payload of Payloads.
PayloadNext ==
  \/ \E data \in Payloads : SendCmd("getMsgImage", data)
  \/ \E w \in 1..MaxCmds, ok \in BOOLEAN : SendCallback(w, ok)
  \/ WsOpen
  \/ WsClose
  \/ Return

PayloadSpec == Init /\ [][PayloadNext]_vars

\* the arguments login is called with: every login type, a name that is none
\* and a name every object inherits; payloads with none, some and all of the
\* fields the types require
LoginTypes == LoginTypeNames \cup {"wechat", "constructor"}
LoginData ==
  {Obj(<<>>),
   Obj(<< <<K_token, Str("t")>> >>),
   Obj(<< <<K_token, Str("t")>>, <<K_wxData, Str("62")>> >>),
   Obj(<< <<K_token, Str("")>>, <<K_wxData, Str("62")>> >>),
   Obj(<< <<K_phone, Str("139")>> >>),
   Obj(<< <<K_username, Str("u")>> >>),
   Obj(<< <<K_username, Str("u")>>, <<K_password, Str("p")>> >>)}

\* The application logs in, with every argument of LoginTypes and LoginData.
LoginNext ==
  \/ \E type \in LoginTypes, data \in LoginData : Login(type, data)
  \/ \E w \in 1..MaxCmds, ok \in BOOLEAN : SendCallback(w, ok)
  \/ WsOpen
  \/ WsClose
  \/ Return

LoginSpec == Init /\ [][LoginNext]_vars

\* field names in the wire form: lower-case words separated by one
\* underscore, a single word, and words that are or begin with a digit
K_a_b_c == <<"a","_","b","_","c">>
K_md5 == <<"m","d","5">>
K_img_2x == <<"i","m","g","_","2","x">>
WireKeys ==
  {K_a_b, K_ab, K_a_1, K_a_b_c, K_md5, K_img_2x, K_msg_id, K_msg_type,
   K_from_user, K_data}

\* flat mappings of one and of two fields in the wire form
WireItems ==
  {Mapping1(k, val) : k \in WireKeys, val \in {Num(1), Str("x")}}
  \cup {Obj(<< <<k[1], Num(1)>>, <<k[2], Str("x")>> >>) :
          k \in {kk \in WireKeys \X WireKeys : kk[1] # kk[2]}}

RoundTripNext == \E obj \in WireItems : RoundTrip(obj)

\* A wire-form item is normalized and turned back, for every item of WireItems.
RoundTripSpec == Init /\ [][RoundTripNext]_vars

CasingNext ==
  \/ \E obj \in Structures, big \in BOOLEAN : ToCamelCase(obj, big)
  \/ ToCamelCaseAgain

\* The key-casing helper called on its own, with every structure of Structures.
CasingSpec == Init /\ [][CasingNext]_vars

\* Node's event loop: a running callback returns; the microtask queue is
\* drained after a callback, and an armed timer fires in the timers phase of
\* some round of the loop, however many frames keep arriving in between.
FairSpec ==
  /\ Spec
  /\ \A w \in 1..MaxCmds : SF_vars(TimerFire(w))
  /\ SF_vars(Microtasks)
  /\ WF_vars(Return)

\* ================================================================= claims
\* call w has its once-listener in the pending table
InTable(w) ==
  /\ w \in Waiters
  /\ \E i \in 1..Len(listeners[RecvEventName(calls[w].cmdId)]) :
       listeners[RecvEventName(calls[w].cmdId)][i] = w

\* the promise the caller of call w holds
CallerFuture(w) ==
  IF calls[w].api = "sendCmd" THEN cmdFuture[w] ELSE future[w]

\* the payloads (after key normalization) of the reply frames that carry id
PayloadsOf(id) ==
  {CamelResultFor(id)} \cup (IF id = CallerId(1) THEN {Undef} ELSE {})

\* the running callback emitted the unmonitored-reply warning for id
WarnedFor(id) ==
  \E i \in 1..Len(emitted) :
    emitted[i] = Event("warn", UnmonitoredReply(id), Undef)

\* C1: no cross-talk.  Whatever commands are outstanding and in whatever
\* order the reply frames arrive, a waiter is resolved only by a frame that
\* carries its own cmdId, and the caller's future resolves only with the
\* payload of such a frame.
C1_NoCrossTalk ==
  \A w \in Waiters :
    /\ recv[w].state = "resolved" => recv[w].value.v.cmdId = calls[w].cmdId
    /\ future[w].state = "resolved" =>
         future[w].value \in PayloadsOf(calls[w].cmdId)
    /\ cmdFuture[w].state = "resolved" =>
         cmdFuture[w].value \in PayloadsOf(calls[w].cmdId)

\* two commands with distinct ids were outstanding together and the reply to
\* the second arrived, and was delivered, before the reply to the first
C1_Witness ==
  /\ Len(calls) = 2
  /\ calls[1].cmdId # calls[2].cmdId
  /\ future[2].state = "resolved"
  /\ future[2].value = CamelResultFor(calls[2].cmdId)
  /\ recv[1].state = "resolved"
  /\ future[1].state = "pending"
  /\ jobs = <<1>>

\* C2 (as claimed): once the deadline timer of a command has fired, the
\* future its caller holds is rejected.
C2_TimeoutRejectsCaller ==
  \A w \in Waiters :
    timeOutHandle[w].state = "fired" => CallerFuture(w).state = "rejected"

\* C3 (as claimed): when the transmit of a command's frame failed, the
\* future its caller holds is rejected.
C3_TransportFailureRejectsCaller ==
  \A w \in Waiters :
    sent[w].state = "rejected" => CallerFuture(w).state = "rejected"

\* C4: exactly-once completion.  The waiter of a command is completed at most
\* once, by the reply or by the timer; once it is completed no later step
\* completes it again or changes its outcome, and a reply frame that finds no
\* entry does not throw.
C4_ExactlyOnce ==
  /\ [](\A w \in Waiters :
          /\ completions[w] <= 1
          /\ completions[w] = 1 <=> recv[w].state # "pending")
  /\ [][\A w \in Waiters :
          recv[w].state # "pending" =>
            /\ recv'[w] = recv[w]
            /\ completions'[w] = completions[w]]_vars
  /\ [][\A msg \in CmdRetFrames : OnWsMsg(msg) => ~threw']_vars

\* the timer of a command won the race and its reply came second: the reply
\* found no entry and left the rejected waiter as it was
C4_Witness ==
  \E w \in Waiters :
    /\ recv[w].state = "rejected"
    /\ timeOutHandle[w].state = "fired"
    /\ completions[w] = 1
    /\ WarnedFor(calls[w].cmdId)
    /\ ~threw

\* C5: every entry a send registers is eventually removed from the pending
\* table, by its reply or by its deadline timer, whether the transmit
\* succeeded or failed and whether the socket is open or closed; and the step
\* in which a command times out leaves no entry for its cmdId.
C5_EntryEventuallyRemoved ==
  /\ \A w \in 1..MaxCmds : InTable(w) ~> ~InTable(w)
  /\ [][\A w \in Waiters :
          TimerFire(w) => listeners'[RecvEventName(calls[w].cmdId)] = <<>>]_vars

\* a command whose transmit failed on a closed socket was evicted by its timer
C5_Witness ==
  \E w \in Waiters :
    /\ ws = "closed"
    /\ sent[w].state = "rejected"
    /\ timeOutHandle[w].state = "fired"
    /\ ~InTable(w)
    /\ listeners[RecvEventName(calls[w].cmdId)] = <<>>

\* C6 (as claimed): the pending table holds at most one waiter per cmdId.
C6_AtMostOneWaiterPerId ==
  \A name \in DOMAIN listeners : Len(listeners[name]) <= 1

\* C7: a command whose waiter was completed, by reply or by timeout, has no
\* entry in the pending table and no armed timer.
C7_NoStaleEntry ==
  \A w \in Waiters :
    recv[w].state # "pending" =>
      /\ ~InTable(w)
      /\ timeOutHandle[w].state # "armed"
      /\ recv[w].state = "resolved" => timeOutHandle[w].state = "cleared"
      /\ recv[w].state = "rejected" => timeOutHandle[w].state = "fired"

\* one command was completed by its reply and another by its timer
C7_Witness ==
  \E w1, w2 \in Waiters :
    /\ recv[w1].state = "resolved"
    /\ recv[w2].state = "rejected"
    /\ ~InTable(w1)
    /\ ~InTable(w2)

\* C8: a cmdRet frame whose cmdId has no live entry emits exactly one
\* unmonitored-reply warning on 'warn', completes no future and does not
\* throw.
C8_UnmonitoredReply ==
  [][\A msg \in CmdRetFrames :
       (/\ OnWsMsg(msg)
        /\ ListenersOf(listeners, RetEventName(msg.env)) = <<>>)
       => /\ Cardinality({i \in 1..Len(emitted') : emitted'[i].ev = "warn"}) = 1
          /\ \E i \in 1..Len(emitted') :
               emitted'[i] = Event("warn", UnmonitoredReply(msg.env.cmdId), Undef)
          /\ ~threw'
          /\ UNCHANGED <<recv, completions, future, cmdFuture, jobs,
                         listeners, timeOutHandle>>]_vars

\* a second reply frame for a command that an earlier frame already answered
C8_Witness ==
  \E w \in Waiters :
    /\ recv[w].state = "resolved"
    /\ future[w].state = "resolved"
    /\ completions[w] = 1
    /\ WarnedFor(calls[w].cmdId)

\* C9: an undecodable frame emits one decode error and nothing else, changes
\* no pending entry (nor anything else the program keeps), and every frame
\* is routed after it exactly as it would have been routed before it.
C9_DecodeErrorIsolated ==
  [][\A bad \in UndecodableFrames :
       OnWsMsg(bad) =>
         /\ emitted' = <<Event("error", DecodeError, Undef)>>
         /\ UNCHANGED <<ws, userOn, calls, nextUuid, listeners, timeOutHandle,
                        recv, completions, sent, future, cmdFuture, jobs,
                        unhandled, wire>>
         /\ LET after == [listeners |-> listeners',
                          timeOutHandle |-> timeOutHandle', recv |-> recv',
                          completions |-> completions', jobs |-> jobs',
                          unhandled |-> unhandled']
            IN \A msg \in Frames :
                 onWsMsg(after, userOn', msg) = onWsMsg(DState, userOn, msg)]_vars

\* an undecodable frame arrived while a command was waiting for its reply
C9_Witness ==
  /\ emitted = <<Event("error", DecodeError, Undef)>>
  /\ ~threw
  /\ \E w \in Waiters : InTable(w) /\ timeOutHandle[w].state = "armed"

\* C10 (as claimed): the router returns normally for every frame, whatever
\* listeners the consumer registered.
C10_RouterNeverThrows ==
  [][\A msg \in Frames : OnWsMsg(msg) => ~threw']_vars

\* the 'push' events among the events a callback emitted, in order
PushEventsOf(em) == SelectSeq(em, LAMBDA e : e.ev = "push")

\* the list of a push frame as it came over the wire
ListOf(msg) == Get(msg.env.data, K_list)

\* the push frames whose data.list is a non-empty sequence
BatchesWithItems ==
  {msg \in PushFrames \cup BatchFrames :
     ListOf(msg).t = "arr" /\ Len(ListOf(msg).v) > 0}

\* the items of a wire list whose primary type is neither 2048 nor 32768
KeptItems(list) ==
  SelectSeq(list, LAMBDA item :
    Get(item, K_msg_type) \notin {Num(Noise2048), Num(Noise32768)})

\* the event carries that item: same primary type and same sub type
CarriesItem(e, item) ==
  /\ Get(e.p1, K_msgType) = Get(item, K_msg_type)
  /\ Get(e.p1, K_subType) = Get(item, K_sub_type)

\* C11 (as claimed): for every push frame with a non-empty list, the 'push'
\* events emitted are, one for one and in order, the items of the list whose
\* primary type is neither 2048 nor 32768.
C11_PushEventsAreKeptItems ==
  [][\A msg \in BatchesWithItems :
       OnWsMsg(msg) =>
         LET evs == PushEventsOf(emitted')
             kept == KeptItems(ListOf(msg).v)
         IN /\ Len(evs) = Len(kept)
            /\ \A i \in 1..Len(kept) : CarriesItem(evs[i], kept[i])]_vars

\* C12: every emitted push item carries an effective type mType: its sub type
\* when its primary type is 5, its primary type otherwise.
C12_EffectiveType ==
  \A i \in 1..Len(emitted) :
    emitted[i].ev = "push" =>
      LET item == emitted[i].p1 IN
      /\ item.t = "obj"
      /\ HasKey(item.v, K_mType)
      /\ Get(item, K_msgType) = Num(SubTypeMarker) =>
           Get(item, K_mType) = Get(item, K_subType)
      /\ Get(item, K_msgType) # Num(SubTypeMarker) =>
           Get(item, K_mType) = Get(item, K_msgType)

\* one batch gave an item of primary type 5 and sub type 7 the effective type
\* 7 and an item of primary type 1 the effective type 1
C12_Witness ==
  \E i, j \in 1..Len(emitted) :
    /\ emitted[i].ev = "push"
    /\ Get(emitted[i].p1, K_msgType) = Num(5)
    /\ Get(emitted[i].p1, K_subType) = Num(7)
    /\ Get(emitted[i].p1, K_mType) = Num(7)
    /\ emitted[j].ev = "push"
    /\ Get(emitted[j].p1, K_msgType) = Num(1)
    /\ Get(emitted[j].p1, K_mType) = Num(1)

\* the push frames whose data is absent or whose data.list is absent, not a
\* sequence, or empty
BatchesWithoutItems == PushFrames \ BatchesWithItems

\* C13: a push frame without data, or whose data.list is absent, not a
\* sequence or empty, emits exactly one push-data error on 'error' and no
\* 'push' event; nothing is emitted after the error and no waiter is touched.
C13_EmptyBatchIsError ==
  [][\A msg \in BatchesWithoutItems :
       OnWsMsg(msg) =>
         /\ Len(emitted') = 2
         /\ emitted'[1].ev = "msg"
         /\ emitted'[2] = Event("error", PushDataError, Undef)
         /\ PushEventsOf(emitted') = <<>>
         /\ UNCHANGED <<listeners, timeOutHandle, recv, completions, jobs,
                        unhandled>>]_vars

\* a push frame with an empty list was reported to the consumer's 'error'
\* listener
C13_Witness ==
  /\ Len(emitted) = 2
  /\ emitted[1].ev = "msg"
  /\ emitted[1].p1.v.event = "push"
  /\ Get(emitted[1].p1.v.data, K_list) = Arr(<<>>)
  /\ emitted[2] = Event("error", PushDataError, Undef)
  /\ ~threw

\* the item is a mapping with a numeric primary type that is no noise code
IsDeliverable(item) ==
  /\ item.t = "obj"
  /\ Get(item, K_msg_type).t = "num"
  /\ Get(item, K_msg_type) \notin {Num(Noise2048), Num(Noise32768)}

\* C14 (as claimed): a malformed item does not abort the batch: every
\* well-formed item of the list that is no noise still produces its 'push'
\* event, in order.
C14_MalformedItemIsolated ==
  [][\A msg \in BatchesWithItems :
       OnWsMsg(msg) =>
         LET evs == PushEventsOf(emitted')
             good == SelectSeq(ListOf(msg).v, IsDeliverable)
         IN /\ Len(evs) = Len(good)
            /\ \A i \in 1..Len(good) : CarriesItem(evs[i], good[i])]_vars

\* the payload a lifecycle frame of LifecycleFrames hands to the consumer: the
\* result structure with its keys in camel case, {} when the frame has none
LifecyclePayload(msg) ==
  IF msg.env.data = Undef THEN Obj(<<>>) ELSE CamelResultFor(CallerId(1))

\* C15: a userEvent frame whose event is qrcode, scan, login, loaded, logout,
\* over or sns emits exactly one event of that name carrying (normalized
\* payload, msg), nothing on 'push', 'warn', 'error' or 'other', and completes
\* no pending command.
C15_LifecycleEvent ==
  [][\A msg \in LifecycleFrames :
       OnWsMsg(msg) =>
         /\ Len(emitted') = 2
         /\ emitted'[1].ev = "msg"
         /\ emitted'[2] = Event(msg.env.event, LifecyclePayload(msg), msg.env.msg)
         /\ \A i \in 1..Len(emitted') :
              emitted'[i].ev \notin {"push", "warn", "error", "other", "RET#"}
         /\ ~threw'
         /\ UNCHANGED <<listeners, timeOutHandle, recv, completions, future,
                        cmdFuture, jobs, unhandled>>]_vars

\* a scan event that carries the cmdId of a waiting command arrived: the
\* event was emitted and the command is still waiting
C15_Witness ==
  /\ Len(emitted) = 2
  /\ emitted[2] = Event("scan", CamelResultFor(CallerId(1)), Str("hint"))
  /\ \E w \in Waiters :
       /\ emitted[1].p1.v.cmdId = calls[w].cmdId
       /\ InTable(w)
       /\ recv[w].state = "pending"

\* the frames that decode and are neither a reply nor a userEvent with a
\* recognized event name; JSON null is one of them
UnclassifiedFrames == OtherFrames \cup {JsonNullFrame}

\* the 'other' events among the events a callback emitted, in order
OtherEventsOf(em) == SelectSeq(em, LAMBDA e : e.ev = "other")

\* C16 (as claimed): a decoded frame whose type is neither cmdRet nor
\* userEvent, or a userEvent frame with an unrecognized event name, emits
\* exactly one 'other' event, which carries the decoded frame.
C16_UnclassifiedIsOther ==
  [][\A msg \in UnclassifiedFrames :
       OnWsMsg(msg) =>
         /\ Len(OtherEventsOf(emitted')) = 1
         /\ OtherEventsOf(emitted')[1].p1 = emitted'[1].p1]_vars

\* C17 (as claimed): key-casing normalization is idempotent: passing the
\* value a call returned to toCamelCase again returns that same value.
C17_Idempotent ==
  [][ToCamelCaseAgain => normOutput' = normOutput]_vars

\* C18 (as claimed): toCamelCase does not mutate its argument: after the call
\* the structure the caller passed is the same as before the call.
C18_ArgumentUntouched == normHeld = normInput

\* no two keys of a mapping of x get the same name, at any depth
RECURSIVE NoKeyCollision(_, _)
NoKeyCollision(x, big) ==
  CASE x.t = "arr" -> \A i \in 1..Len(x.v) : NoKeyCollision(x.v[i], FALSE)
    [] x.t = "obj" ->
         /\ \A i, j \in 1..Len(x.v) :
              i # j => CamelKey(x.v[i][1], big) # CamelKey(x.v[j][1], big)
         /\ \A i \in 1..Len(x.v) : NoKeyCollision(x.v[i][2], FALSE)
    [] OTHER -> TRUE

\* y is x with its mapping keys renamed and nothing else changed: a scalar is
\* the same, a sequence has the same length and order, a mapping has one entry
\* per entry of x, under the new name and with the rewritten value
RECURSIVE Rewritten(_, _, _)
Rewritten(x, y, big) ==
  CASE x.t = "arr" ->
         /\ y.t = "arr"
         /\ Len(y.v) = Len(x.v)
         /\ \A i \in 1..Len(x.v) : Rewritten(x.v[i], y.v[i], FALSE)
    [] x.t = "obj" ->
         /\ y.t = "obj"
         /\ Len(y.v) = Len(x.v)
         /\ \A i \in 1..Len(x.v) :
              \E j \in 1..Len(y.v) :
                /\ y.v[j][1] = CamelKey(x.v[i][1], big)
                /\ Rewritten(x.v[i][2], y.v[j][2], FALSE)
    [] OTHER -> y = x

\* C19 (as claimed): toCamelCase renames the mapping keys at every depth and
\* changes nothing else: scalars, sequence lengths and order, and one entry
\* per original entry with the same (rewritten) value.  Stated for structures
\* in which no two keys of a mapping get the same name.
C19_OnlyKeysRewritten ==
  NoKeyCollision(normInput, normBig) =>
    Rewritten(normInput, normOutput, normBig)

\* the events in the log of the running callback all belong to one frame, the
\* one its 'msg' event carries: the log holds one 'msg' event, at its head,
\* and every 'RET#', 'other' and 'push' event carries that frame or an item
\* of its list
OneFrameAtATime ==
  \A i \in 1..Len(emitted) :
    /\ emitted[i].ev = "msg" => i = 1
    /\ emitted[i].ev \in {"RET#", "other", "push"} => emitted[1].ev = "msg"
    /\ emitted[i].ev = "other" => emitted[i].p1 = emitted[1].p1
    /\ emitted[i].ev = "RET#" =>
         /\ emitted[i].p2 = emitted[1].p1
         /\ emitted[i].p1 = Str(emitted[1].p1.v.cmdId)
    /\ emitted[i].ev = "push" =>
         \E j \in 1..Len(Get(emitted[1].p1.v.data, K_list).v) :
           Obj(DeleteKey(emitted[i].p1.v, K_mType))
             = Get(emitted[1].p1.v.data, K_list).v[j]

\* C20: frames are processed one at a time and to the end.  The events of
\* one callback all belong to one frame; a waiter is completed by a reply only
\* in the step that processes that reply, which starts with no other callback
\* running; and that step completes every waiter registered for the frame's
\* cmdId, so nothing of a frame is left over for the time of the next one.
C20_FramesInOrder ==
  /\ []OneFrameAtATime
  /\ [][\A w \in Waiters :
          (recv[w].state = "pending" /\ recv'[w].state = "resolved") =>
            /\ emitted = <<>>
            /\ emitted' # <<>>
            /\ emitted'[1].ev = "msg"
            /\ recv'[w].value = emitted'[1].p1
            /\ \E i \in 1..Len(emitted') : emitted'[i].ev = "RET#"]_vars
  /\ [][\A w \in Waiters :
          (/\ InTable(w)
           /\ \E i \in 1..Len(emitted') :
                /\ emitted'[i].ev = "RET#"
                /\ emitted'[i].p1 = Str(calls[w].cmdId))
          => recv'[w] = Resolved(emitted'[1].p1)]_vars

\* two replies arrived one after the other: the first completed its waiter
\* before the second was processed, and the second completed its own
C20_Witness ==
  \E w1, w2 \in Waiters :
    /\ w1 # w2
    /\ Len(emitted) = 2
    /\ emitted[2].ev = "RET#"
    /\ jobs = <<w1, w2>>
    /\ recv[w1].state = "resolved"
    /\ recv[w2] = Resolved(emitted[1].p1)
    /\ recv[w1].value # recv[w2].value

\* ------------------------------------------------------------------ C21
\* the 'cmdRet' events of an event log
CmdRetsOf(log) == SelectSeq(log, LAMBDA e : e.ev = "cmdRet")

\* the waiters whose reply reactions run in this step
Drained == IF jobs # <<>> /\ jobs' = <<>> THEN jobs ELSE <<>>

\* C21: a command completed by a matching reply emits exactly one 'cmdRet'
\* event, carrying the operation name and the result delivered to the caller;
\* a command that timed out, or whose transmit failed, emits none.  In every
\* step the 'cmdRet' events emitted are one per command whose reply reaction
\* runs in that step; a command is queued for that reaction only by its
\* reply, at most once, and never after its deadline rejected it; the step in
\* which a transmit fails emits nothing and queues nothing.
C21_OneCmdRetPerReply ==
  [][/\ CmdRetsOf(emitted')
          = [i \in 1..Len(Drained) |->
               Event("cmdRet", Str(calls[Drained[i]].cmd),
                     future'[Drained[i]].value)]
     /\ \A i \in 1..Len(Drained) :
          /\ recv[Drained[i]].state = "resolved"
          /\ future'[Drained[i]].state = "resolved"
          /\ \A j \in 1..Len(Drained) : Drained[i] = Drained[j] => i = j
     /\ \A w \in Waiters :
          /\ (\E i \in 1..Len(jobs') : jobs'[i] = w)
               /\ ~(\E i \in 1..Len(jobs) : jobs[i] = w)
               => /\ completions[w] = 0
                  /\ recv[w].state = "pending"
                  /\ recv'[w].state = "resolved"
          /\ recv[w].state = "rejected"
               => ~(\E i \in 1..Len(jobs') : jobs'[i] = w)
          /\ sent[w].state = "pending" /\ sent'[w].state = "rejected"
               => emitted' = <<>> /\ jobs' = jobs]_vars

\* one command has just emitted its 'cmdRet' with the payload its caller
\* got, while another one had timed out
C21_Witness ==
  \E w \in Waiters, v \in Waiters :
    /\ emitted = <<Event("cmdRet", Str(calls[w].cmd), cmdFuture[w].value)>>
    /\ cmdFuture[w].state = "resolved"
    /\ recv[v].state = "rejected"
    /\ cmdFuture[v].state = "pending"

\* ------------------------------------------------------------------ C22
\* C22: the 'cmdRet' event is independent of the caller's result: whatever
\* the consumer's 'cmdRet' listeners do, a sendCmd call whose reply arrived and
\* whose reactions have run holds a future resolved with the reply's payload.
C22_ListenerCannotChangeResult ==
  \A w \in Waiters :
    /\ calls[w].api = "sendCmd"
    /\ recv[w].state = "resolved"
    /\ ~(\E i \in 1..Len(jobs) : jobs[i] = w)
    => cmdFuture[w] = Resolved(ReplyPayload(recv[w]))

\* ------------------------------------------------------------------ C23
\* the names of the events of a log
NamesOf(log) == {log[i].ev : i \in 1..Len(log)}

\* what the dispatcher holds for the outstanding commands
PendingState ==
  <<listeners, timeOutHandle, recv, completions, sent, future, cmdFuture, jobs>>

\* C23: the connection layer forwards the socket's lifecycle one-to-one: the
\* socket opening emits exactly one 'open', the socket closing exactly one
\* 'close', a socket error exactly one 'error'; 'open' and 'close' are emitted
\* in no other step; a socket error emits no 'close', leaves the socket as it
\* is and removes or completes no pending command.
C23_LifecycleForwarded ==
  [][/\ (ws = "connecting" /\ ws' = "open")
          <=> emitted' = <<Event("open", Undef, Undef)>>
     /\ "open" \in NamesOf(emitted') => Len(emitted') = 1
     /\ (ws # "closed" /\ ws' = "closed")
          <=> emitted' = <<Event("close", Undef, Undef)>>
     /\ "close" \in NamesOf(emitted') => Len(emitted') = 1
     /\ WsError
          => /\ emitted' = <<Event("error", Err("SocketError", Undef), Undef)>>
             /\ ws' = ws
             /\ PendingState' = PendingState]_vars

\* a socket error was just forwarded while a command is outstanding
C23_Witness ==
  /\ emitted = <<Event("error", Err("SocketError", Undef), Undef)>>
  /\ ws = "open"
  /\ \E w \in Waiters : InTable(w) /\ recv[w].state = "pending"

\* ------------------------------------------------------------------ C24
\* C24: no reconnection: once the socket has closed it stays closed, whatever
\* the application and the timers do afterwards, and 'open' is emitted only
\* by the step in which the socket of the constructor opens.
C24_NoReconnect ==
  [][/\ ws = "closed" => ws' = "closed" /\ "open" \notin NamesOf(emitted')
     /\ ws = "open" => "open" \notin NamesOf(emitted')
     /\ ws' = "connecting" => ws = "connecting"]_vars

\* the socket opened, carried a frame and closed, and a command issued after
\* the close found no socket to send on
C24_Witness ==
  /\ ws = "closed"
  /\ Len(wire) = 1
  /\ Len(calls) = 2
  /\ sent[2].state = "rejected"
  /\ unhandled # {}

\* ------------------------------------------------------------------ C25
\* C25: no command is retried: the frames handed to the socket only grow by
\* the one frame of the asyncSend or sendCmd call being made, carrying that
\* call's cmdId; a deadline, a failed transmit, a socket close and every other
\* step hand nothing to the socket, so a call has at most one frame.
C25_NoRetransmit ==
  [][/\ Len(wire') >= Len(wire)
     /\ SubSeq(wire', 1, Len(wire)) = wire
     /\ wire' # wire
          => /\ Len(wire') = Len(wire) + 1
             /\ Len(calls') = Len(calls) + 1
             /\ wire'[Len(wire')].cmdId = calls'[Len(calls')].cmdId
             /\ wire'[Len(wire')].cmd = calls'[Len(calls')].cmd
     /\ Len(wire') <= Len(calls')]_vars

\* a command was transmitted once, its transmit failed, its deadline passed
\* and the socket closed
C25_Witness ==
  /\ Len(wire) = 1
  /\ ws = "closed"
  /\ \E w \in Waiters :
       /\ wire[1].cmdId = calls[w].cmdId
       /\ sent[w].state = "rejected"
       /\ timeOutHandle[w].state = "fired"

\* ------------------------------------------------------------------ C26
\* call w is in the pending table after the step
InTableNext(w) ==
  \E i \in 1..Len(listeners'[RecvEventName(calls[w].cmdId)]) :
    listeners'[RecvEventName(calls[w].cmdId)][i] = w

\* C26: a socket close leaves the pending table unchanged (no entry, timer
\* or promise of an outstanding command is removed or completed by it), and
\* an entry leaves the table only in the step that delivers its own reply to
\* its listener or in the step in which its own deadline timer fires.
C26_EntryReclaimedOnlyByOwn ==
  [][/\ (ws # "closed" /\ ws' = "closed") => PendingState' = PendingState
     /\ \A w \in Waiters :
          InTable(w) /\ ~InTableNext(w)
            => \/ /\ recv[w].state = "pending"
                  /\ recv'[w].state = "resolved"
                  /\ recv'[w].value.v.cmdId = calls[w].cmdId
               \/ /\ timeOutHandle[w].state = "armed"
                  /\ timeOutHandle'[w].state = "fired"]_vars

\* ------------------------------------------------------------------ C27
\* what the dispatcher holds for call v: entry, timer and promises
CommandState(v) ==
  <<InTable(v), timeOutHandle[v], recv[v], sent[v], future[v], cmdFuture[v]>>

CommandStateNext(v) ==
  <<InTableNext(v), timeOutHandle'[v], recv'[v], sent'[v], future'[v],
    cmdFuture'[v]>>

\* C27: one command's completion never affects another's: in the step in
\* which the deadline of call w fires, and in the step in which the reply of
\* call w is delivered, the entry, the timer and the promises of every other
\* call are what they were.
C27_CompletionIsolated ==
  [][\A w \in Waiters :
       \/ timeOutHandle[w].state = "armed" /\ timeOutHandle'[w].state = "fired"
       \/ /\ recv[w].state = "pending" /\ recv'[w].state = "resolved"
          /\ \A v \in Waiters :
               recv[v].state = "pending" /\ recv'[v].state = "resolved" => v = w
       => \A v \in Waiters \ {w} : CommandStateNext(v) = CommandState(v)]_vars

\* ------------------------------------------------------------------ C28
\* C28: the deadline of a command is the timeout given, taken as
\* milliseconds: the timer armed for a call runs for exactly the call's
\* timeout (30000 ms for the default), not for a multiple of it.
C28_DeadlineIsTimeoutMs ==
  \A w \in Waiters : timeOutHandle[w].delay = calls[w].timeout

\* ------------------------------------------------------------------ C29
\* no character of the key is an upper-case letter
IsUnderscoreKey(key) == \A i \in 1..Len(key) : key[i] \notin UpperLetters

\* the frame's rawMsgData is the caller's without its 'data' entry, entry by
\* entry: each key in underscore form and naming the caller's key (it is
\* the key toCamelCase turns into the caller's), each value the caller's
IsSanitized(out, raw) ==
  LET kept == SelectSeq(raw.v, LAMBDA e : e[1] # K_data)
  IN /\ out.t = "obj"
     /\ ~HasKey(out.v, K_data)
     /\ Len(out.v) = Len(kept)
     /\ \A i \in 1..Len(kept) :
          /\ IsUnderscoreKey(out.v[i][1])
          /\ CamelKey(out.v[i][1], FALSE) = CamelKey(kept[i][1], FALSE)
          /\ out.v[i][2] = JsonStringify(kept[i][2])

\* the payload of the frame the step hands to the socket
SentData == wire'[Len(wire')].data

\* C29: payload sanitizing applies only to rawMsgData.  For every payload a
\* sendCmd call is given on an open socket, the frame carries the payload's
\* fields other than rawMsgData as they are (in their JSON encoding); a
\* rawMsgData mapping is carried without its 'data' entry and with its keys
\* in underscore form; a payload without rawMsgData is carried unchanged.
C29_OnlyRawMsgSanitized ==
  [][\A data \in Payloads :
       SendCmd("getMsgImage", data) /\ ws = "open"
         => LET raw == Get(data, K_rawMsgData)
                others == DeleteKey(data.v, K_rawMsgData)
            IN /\ Len(wire') = Len(wire) + 1
               /\ DeleteKey(SentData.v, K_rawMsgData)
                    = JsonStringify(Obj(others)).v
               /\ raw.t = "obj" => IsSanitized(Get(SentData, K_rawMsgData), raw)
               /\ raw.t # "obj"
                    => Get(SentData, K_rawMsgData) = JsonStringify(raw)
               /\ ~HasKey(data.v, K_rawMsgData)
                    => SentData = JsonStringify(data)]_vars

\* a frame was sent whose rawMsgData lost 'data' and has msg_id and from_user,
\* next to the payload's own field, and another frame carries a payload that
\* had no rawMsgData
C29_Witness ==
  \E i \in 1..Len(wire), j \in 1..Len(wire) :
    /\ wire[i].data
         = Obj(<< <<K_rawMsgData,
                    Obj(<< <<K_from_user, Str("u1")>>,
                           <<K_msg_id, Str("m1")>> >>)>>,
                  <<K_key, Str("k")>> >>)
    /\ wire[j].data = Obj(<< <<K_content, Str("hi")>>, <<K_fromUser, Str("u2")>> >>)

\* ------------------------------------------------------------------ C30
\* C30: the two wire spellings of an item's type fields, msg_type/sub_type
\* and msgType/subType, are equivalent: in every state the router does with a
\* batch in one spelling exactly what it does with the same batch in the
\* other: the same items are filtered, the same 'push' events are emitted
\* with the same effective type, and the dispatcher is left the same.
C30_SpellingsEquivalent ==
  \A p \in SpellingPairs :
    /\ p.under \in BatchFrames
    /\ onWsMsg(DState, userOn, p.camel) = onWsMsg(DState, userOn, p.under)

\* the callback running delivered a marker item whose effective type is its
\* sub type, while a command is outstanding
C30_Witness ==
  /\ \E i \in 1..Len(emitted) :
       /\ emitted[i]
            = Event("push",
                    Obj(<< <<K_msgType, Num(SubTypeMarker)>>,
                           <<K_subType, Num(7)>>, <<K_mType, Num(7)>> >>),
                    Undef)
       /\ \A j \in 1..Len(emitted) : emitted[j].ev = "push" => j = i
  /\ \E w \in Waiters : InTable(w)

\* ------------------------------------------------------------------ C31
\* the decoded frame the running callback emitted as 'msg'
IsMsgOf(e, type, event) ==
  e.ev = "msg" /\ e.p1.v.type = type /\ e.p1.v.event = event

\* C31: a userEvent frame with event 'warn' emits, after its 'msg' event,
\* exactly one 'warn' event: an error made of the text the frame carries in
\* its error field, with the frame's success flag as second argument.
C31_WarnCarriesServerMessage ==
  \A i \in 1..Len(emitted) :
    IsMsgOf(emitted[i], "userEvent", "warn")
      => emitted = <<emitted[i],
                     Event("warn", ServerWarn(emitted[i].p1.v.error),
                           emitted[i].p1.v.success)>>

\* a warning with the server's text, flagged as not recoverable, was emitted
C31_Witness ==
  /\ Len(emitted) = 2
  /\ IsMsgOf(emitted[1], "userEvent", "warn")
  /\ emitted[2] = Event("warn", ServerWarn(Str("e1")), Bool(FALSE))

\* ------------------------------------------------------------------ C32
\* the reply the server sends for call w
ReplyTo(w) ==
  JsonFrame(Envelope("cmdRet", calls'[w].cmdId, "", ResultFor(calls'[w].cmdId)))

\* C32: the waiter is registered before the frame is transmitted: when the
\* step of an asyncSend or sendCmd call has handed its frame to the socket,
\* the pending table holds the entry of that call under the frame's cmdId and
\* its timer is armed, so the reply to that frame, arriving as the very next
\* callback, completes the call.
C32_WaiterBeforeTransmit ==
  [][wire' # wire
       => LET w == Len(calls')
          IN /\ wire'[Len(wire')].cmdId = calls'[w].cmdId
             /\ \E i \in 1..Len(listeners'[RecvEventName(calls'[w].cmdId)]) :
                  listeners'[RecvEventName(calls'[w].cmdId)][i] = w
             /\ timeOutHandle'[w].state = "armed"
             /\ recv'[w].state = "pending"
             /\ onWsMsg(DState', userOn', ReplyTo(w)).d.recv[w].state
                  = "resolved"]_vars

\* the reply to the only frame sent arrived before the send callback ran,
\* and found the waiter
C32_Witness ==
  /\ Len(wire) = 1
  /\ \E w \in Waiters :
       /\ wire[1].cmdId = calls[w].cmdId
       /\ sent[w].state = "pending"
       /\ recv[w].state = "resolved"
       /\ completions[w] = 1

\* ------------------------------------------------------------------ C33
\* the arguments the claim calls valid: one of the five login types, with
\* the fields the type requires
ValidLogin(type, data) ==
  /\ type \in LoginTypeNames
  /\ type \in {"token", "request"}
       => Truthy(Get(data, K_token)) /\ Truthy(Get(data, K_wxData))
  /\ type = "phone" => Truthy(Get(data, K_phone))
  /\ type = "user"
       => Truthy(Get(data, K_username)) /\ Truthy(Get(data, K_password))

\* C33: login rejects before anything is sent when its arguments are invalid
\* (an unknown type, or a type without the fields it requires): no frame is
\* handed to the socket and no call or pending entry is registered; with
\* valid arguments on an open socket exactly one 'login' frame is sent,
\* whose loginType is the type.
C33_LoginValidates ==
  [][\A type \in LoginTypes, data \in LoginData :
       Login(type, data)
         => IF ValidLogin(type, data)
              THEN /\ Len(calls') = Len(calls) + 1
                   /\ loginRet'.state = "awaits"
                   /\ ws = "open"
                        => /\ Len(wire') = Len(wire) + 1
                           /\ wire'[Len(wire')].cmd = "login"
                           /\ Get(wire'[Len(wire')].data, K_loginType) = Str(type)
              ELSE /\ loginRet'.state = "rejected"
                   /\ wire' = wire
                   /\ calls' = calls
                   /\ PendingState' = PendingState]_vars

\* ------------------------------------------------------------------ C34
\* the keys of the mappings of a structure, at every nesting depth
RECURSIVE KeysOf(_)
KeysOf(x) ==
  IF x.t = "obj"
    THEN {x.v[i][1] : i \in 1..Len(x.v)}
         \cup UNION {KeysOf(x.v[i][2]) : i \in 1..Len(x.v)}
  ELSE IF x.t = "arr" THEN UNION {KeysOf(x.v[i]) : i \in 1..Len(x.v)}
  ELSE {}

\* C34: the capitalization flag of toCamelCase applies to every key.  With
\* the flag set, every key of the result, at every nesting depth, starts
\* with an upper-case letter; with the flag unset, every key that starts with
\* a letter keeps that first letter, and no other first letter appears.
C34_FlagAppliesAtEveryDepth ==
  /\ normBig => \A k \in KeysOf(normOutput) : k[1] \in UpperLetters
  /\ ~normBig
       => /\ \A k \in KeysOf(normInput) :
               k[1] # "_" => \E k2 \in KeysOf(normOutput) : k2[1] = k[1]
          /\ \A k2 \in KeysOf(normOutput) :
               \E k \in KeysOf(normInput) : k[1] = "_" \/ k[1] = k2[1]

\* ------------------------------------------------------------------ C35
\* the 'data' fields, keys normalized, of the cmdRet frames that carry id
NormalizedDataOf(id) ==
  {IF Truthy(f.env.data) THEN toCamelCase(f.env.data, FALSE) ELSE f.env.data :
     f \in {g \in CmdRetFrames : g.env.cmdId = id}}

\* C35: the value a command's future resolves with is the 'data' field of
\* the matching cmdRet frame after key normalization, never the envelope: it
\* is the data of the frame the waiter received, it is the normalized data of
\* a frame with the call's cmdId, and it is no envelope (it has no cmdId and
\* no type of a frame).
C35_ResultIsDataField ==
  \A w \in Waiters :
    /\ future[w].state = "resolved"
         => /\ future[w].value = recv[w].value.v.data
            /\ future[w].value \in NormalizedDataOf(calls[w].cmdId)
            /\ future[w].value.t # "env"
    /\ cmdFuture[w].state = "resolved"
         => /\ cmdFuture[w].value = recv[w].value.v.data
            /\ cmdFuture[w].value.t # "env"

\* a sendCmd call was answered and its caller holds the result structure,
\* keys in camel case
C35_Witness ==
  \E w \in Waiters :
    /\ calls[w].api = "sendCmd"
    /\ recv[w].value.t = "env"
    /\ recv[w].value.v.type = "cmdRet"
    /\ cmdFuture[w] = Resolved(CamelResultFor(calls[w].cmdId))
    /\ Get(Get(cmdFuture[w].value, K_data), K_msgId) = Str(calls[w].cmdId)

\* ------------------------------------------------------------------ C36
\* the frame as onWsMsg holds it once data.data is normalized
Decoded(msg) ==
  IF Truthy(msg.env.data)
    THEN [msg.env EXCEPT !.data = toCamelCase(@, FALSE)]
    ELSE msg.env

\* C36: a cmdRet frame that carries no cmdId (absent or empty) is classified
\* as nothing: the callback emits the raw 'msg' event and no other event,
\* does not throw, and leaves every pending entry, timer and promise as it
\* was.
C36_AnonymousReplyIgnored ==
  [][\A msg \in AnonymousRetFrames :
       OnWsMsg(msg)
         => /\ emitted' = <<Event("msg", Env(Decoded(msg)), Undef)>>
            /\ ~threw'
            /\ PendingState' = PendingState
            /\ unhandled' = unhandled]_vars

\* a reply without cmdId was just received while a command is outstanding
C36_Witness ==
  /\ Len(emitted) = 1
  /\ emitted[1].ev = "msg"
  /\ emitted[1].p1.v.type = "cmdRet"
  /\ ~TruthyId(emitted[1].p1.v.cmdId)
  /\ \E w \in Waiters : InTable(w) /\ recv[w].state = "pending"

\* ------------------------------------------------------------------ C37
\* C37: every frame that JSON.parse decodes emits exactly one raw 'msg'
\* event, and that event is the first the callback emits, before the waiter's
\* event and before any lifecycle, push, warn, error or other event; a frame
\* that cannot be decoded emits no 'msg' event.
C37_MsgEventFirst ==
  [][\A msg \in Frames :
       OnWsMsg(msg)
         => IF msg.kind \in {"json", "jsonnull"}
              THEN /\ Len(emitted') >= 1
                   /\ emitted'[1].ev = "msg"
                   /\ \A i \in 2..Len(emitted') : emitted'[i].ev # "msg"
              ELSE \A i \in 1..Len(emitted') : emitted'[i].ev # "msg"]_vars

\* C37 for the frames that decode to a mapping
C37_MsgEventFirstForMappings ==
  [][\A msg \in {f \in Frames : f.kind # "jsonnull"} :
       OnWsMsg(msg)
         => IF msg.kind = "json"
              THEN /\ Len(emitted') >= 1
                   /\ emitted'[1] = Event("msg", Env(Decoded(msg)), Undef)
                   /\ \A i \in 2..Len(emitted') : emitted'[i].ev # "msg"
              ELSE \A i \in 1..Len(emitted') : emitted'[i].ev # "msg"]_vars

\* ------------------------------------------------------------------ C38
\* the fields of a mapping: its <<key, value>> entries, whatever their order
FieldsOf(x) == {x.v[i] : i \in 1..Len(x.v)}

\* C38: round trip between the two key conventions: for every flat mapping
\* whose keys are lower-case words separated by underscores (a digit after an
\* underscore included), toUnderLine(toCamelCase(x)) has exactly the keys and
\* the values of x.
C38_RoundTrip ==
  normInput.t = "obj"
    => /\ normOutput.t = "obj"
       /\ Len(normOutput.v) = Len(normInput.v)
       /\ FieldsOf(normOutput) = FieldsOf(normInput)

\* C38 for keys in which no underscore is followed by a digit
C38_RoundTripOfLetterWords ==
  /\ normInput.t = "obj"
  /\ \A k \in KeysOf(normInput) :
       \A i \in 1..(Len(k) - 1) : k[i] = "_" => k[i + 1] \in LowerLetters
  => /\ Len(normOutput.v) = Len(normInput.v)
     /\ FieldsOf(normOutput) = FieldsOf(normInput)

====
